---------------------------- MODULE Spec2Model ----------------------------
(***************************************************************************)
(* HCC AI pipeline: the routes and the job runner of the HTTP service      *)
(* (server/api.py),                                                        *)
(* the CLI batch runner (cli.py), the per-note graph extract -> hcc_eval   *)
(* (app/graph.py, app/nodes.py) and the reference-table lookup             *)
(* (services/hcc_lookup.py).                                               *)
(*                                                                         *)
(* Threads are modelled statement by statement wherever another thread can *)
(* observe the state in between: the runner thread of a job writes the     *)
(* JobState one assignment at a time, and a worker writes an output file   *)
(* in an open step and a dump step.                                        *)
(***************************************************************************)
EXTENDS Integers, Sequences, FiniteSets, TLC

VARIABLES
    mode,        \* which entry point the process was started as: "service" | "cli" | "graph"
    workers,     \* the width of the thread pools, int(os.getenv("WORKERS", ...))
    fs,          \* the output directory: path -> "absent" | "partial" | "complete"
    clock,       \* datetime.utcnow(), as a logical clock
    JOB_STORE,   \* api.JOB_STORE: job id -> JobState (ids are 1..Len)
    run,         \* per job: the thread of EXECUTOR that runs _run_job(job, settings)
    task,        \* per runner and file: the future of _process_one(f, t, graph, output_dir)
    cli,         \* cli.main(): its position, what it printed, its exit
    resp,        \* the last request answered and its response
    table,       \* HCCLookupService.df, the rows of the reference CSV in file order
    llm,         \* ConditionExtractionNode.llm_client: TRUE when a client is configured
    node,        \* the compiled graph's position on one note
    state,       \* the PipelineState threaded through the graph
    ties,        \* sort_values (quicksort): which of the rows of equal score comes first
    lk,          \* one call of HCCLookupService.lookup(condition)
    gen,         \* one call of VertexLLMClient._retry_generate(prompt, max_retries)
    sect         \* one call of extract_assessment_section(text)

vars == <<mode, workers, fs, clock, JOB_STORE, run, task, cli, resp,
          table, llm, node, state, ties, lk, gen, sect>>

runnerVars == <<fs, clock, JOB_STORE, run, task, cli, resp>>
callVars   == <<lk, gen, sect>>
graphVars  == <<table, llm, node, state, ties, callVars>>

---------------------------------------------------------------------------
(* Bounds and program constants *)

\* How many POST /jobs are accepted in one run of the model.
MaxJobs == 2

\* api.WORKERS = int(os.getenv("WORKERS", "8")): the width of EXECUTOR and of
\* the per-job pool; taken from the environment, here 1 or 2.
WORKERS == 2
Widths == 1..WORKERS

\* The files the input directory may hold.
Files == {"note1.txt", "note2.txt"}

\* Python's None, for a name; a timestamp, an exit status or a pending
\* exception that is not there yet is the empty tuple or NoExc.
None == "None"
Unset == <<>>

\* The states settings.input_dir can be found in when it is read: missing, or
\* a directory holding some loadable files.  It is the environment's, and may
\* differ from one read to the next.
MissingDir == [exists |-> FALSE, files |-> {}]
InputDirs == {MissingDir} \cup {[exists |-> TRUE, files |-> F] : F \in SUBSET Files}

JobIds == 1..MaxJobs
CLI == 0
Runners == {CLI} \cup JobIds

---------------------------------------------------------------------------
(* Exceptions and paths *)

\* An exception raised for file f (or by the shared setup, f = None).
Exc(type, f) == [type |-> type, message |-> <<type, f>>]
NoExc == [type |-> None, message |-> <<>>]

\* str(e)
str(e) == e.message

\* os.path.join(output_dir, f"{filename}.json")
OutPath(f) == <<"out", f, ".json">>

\* output_path + ".tmp"
TmpPath(f) == <<"out", f, ".json", ".tmp">>

Paths == {OutPath(f) : f \in Files} \cup {TmpPath(f) : f \in Files}

\* FileLoader(input_dir) raises when the directory d is missing; load_files()
\* returns the mapping of the loadable files of d (here its key set).
FileLoader_raises(d) == ~d.exists
load_files(d) == d.files

---------------------------------------------------------------------------
(* JobState *)

\* JobState._now(): reads the clock
_now == <<clock>>

\* JobState.__init__(files)
JobState(files) ==
    [ status       |-> "pending",
      submitted_at |-> _now,
      started_at   |-> Unset,
      finished_at  |-> Unset,
      total        |-> Cardinality(files),
      completed    |-> 0,
      errors       |-> <<>>,
      outputs      |-> <<>>,
      files        |-> files ]

Terminal == {"completed", "failed"}

\* The runner thread of a job before EXECUTOR has started it.
NewRun == [pc |-> "queued", notes |-> {}, pending |-> {}, fut |-> None, exc |-> NoExc]

IdleTask == [pc |-> "idle", exc |-> NoExc]

\* A task is held by a pool thread from the moment it is started until it
\* returns or raises.
Active(t) == t.pc \in {"invoked", "opened", "dumped"}
Done(t) == t.pc \in {"returned", "raised"}

\* ThreadPoolExecutor(max_workers=WORKERS): a free thread of runner r's pool
PoolHasFreeThread(r) ==
    Cardinality({f \in Files : Active(task[r][f])}) < workers

\* EXECUTOR whose threads are not given back when _run_job returns.
ExecutorHasFreeThread_neverReleased ==
    Cardinality({j \in 1..Len(run) : run[j].pc # "queued"}) < workers

\* EXECUTOR = ThreadPoolExecutor(max_workers=WORKERS): a free thread for a job
ExecutorHasFreeThread ==
    Cardinality({j \in 1..Len(run) : run[j].pc \notin {"queued", "done"}}) < workers


---------------------------------------------------------------------------
(* Security *)

\* api.py 25-26
DEMO_USER == "tushar_reviewer"
DEMO_PASS == "HccDemo2024!"

\* A request without an Authorization header, and the credentials a request
\* may carry.
NoCredentials == [username |-> None, password |-> None]
Credentials ==
    {NoCredentials} \cup [username : {DEMO_USER, "bad"}, password : {DEMO_PASS, "creds"}]

\* The only credentials authenticate lets through.
Authenticated == [username |-> DEMO_USER, password |-> DEMO_PASS]

\* security = HTTPBasic(): raises 401 when the request carries no credentials
security_raises(c) == c = NoCredentials

\* authenticate raising only when both the user name and the password differ.
authenticate_raises_bothWrong(c) ==
    c.username # DEMO_USER /\ c.password # DEMO_PASS

\* api.authenticate: raises 401 "Invalid credentials" unless both match
authenticate_raises(c) ==
    c.username # DEMO_USER \/ c.password # DEMO_PASS

---------------------------------------------------------------------------
(* POST /jobs *)

\* create_job without the check of lines 182-183.
create_job_noCheck(d) ==
    /\ mode = "service"
    /\ Len(JOB_STORE) < MaxJobs
    /\ IF FileLoader_raises(d)
         THEN /\ resp' = [route |-> "POST /jobs", credentials |-> Authenticated,
                          status_code |-> 500, detail |-> "Internal Server Error",
                          job_id |-> 0, loaded |-> d, body |-> <<>>]
              /\ UNCHANGED <<JOB_STORE, run, clock>>
         ELSE /\ JOB_STORE' = Append(JOB_STORE, JobState(load_files(d)))
              /\ clock' = clock + 1
              /\ run' = Append(run, NewRun)
              /\ resp' = [route |-> "POST /jobs", credentials |-> Authenticated,
                          status_code |-> 200, detail |-> "",
                          job_id |-> Len(JOB_STORE) + 1, loaded |-> d, body |-> <<>>]
    /\ UNCHANGED <<mode, workers, fs, task, cli>>
    /\ UNCHANGED graphVars

\* api.create_job, finding the input directory as d: rejects an empty one
\* with 400, else stores a JobState and submits _run_job to EXECUTOR.  An
\* exception of FileLoader (directory missing) leaves the handler as a 500.
create_job(d) ==
    /\ mode = "service"
    /\ Len(JOB_STORE) < MaxJobs
    /\ IF FileLoader_raises(d)
         THEN /\ resp' = [route |-> "POST /jobs", credentials |-> Authenticated,
                          status_code |-> 500, detail |-> "Internal Server Error",
                          job_id |-> 0, loaded |-> d, body |-> <<>>]
              /\ UNCHANGED <<JOB_STORE, run, clock>>
         ELSE IF load_files(d) = {}
         THEN /\ resp' = [route |-> "POST /jobs", credentials |-> Authenticated,
                          status_code |-> 400, detail |-> "No input files found",
                          job_id |-> 0, loaded |-> d, body |-> <<>>]
              /\ UNCHANGED <<JOB_STORE, run, clock>>
         ELSE /\ JOB_STORE' = Append(JOB_STORE, JobState(load_files(d)))
              /\ clock' = clock + 1
              /\ run' = Append(run, NewRun)
              /\ resp' = [route |-> "POST /jobs", credentials |-> Authenticated,
                          status_code |-> 200, detail |-> "",
                          job_id |-> Len(JOB_STORE) + 1, loaded |-> d, body |-> <<>>]
    /\ UNCHANGED <<mode, workers, fs, task, cli>>
    /\ UNCHANGED graphVars

---------------------------------------------------------------------------
(* _run_job(job, settings), one assignment at a time *)

SetJob(j, field, v) == JOB_STORE' = [JOB_STORE EXCEPT ![j][field] = v]
SetRun(j, r) == run' = [run EXCEPT ![j] = r]

\* RunStart, forgetting line 122: the job is run while still "pending".
RunStart_keepsPending(j) ==
    /\ run[j].pc = "queued"
    /\ ExecutorHasFreeThread
    /\ SetRun(j, [run[j] EXCEPT !.pc = "l123"])
    /\ UNCHANGED <<mode, workers, fs, clock, JOB_STORE, task, cli, resp>>
    /\ UNCHANGED graphVars

\* api.py 122: a thread of EXECUTOR takes the job; job.status = "running"
RunStart(j) ==
    /\ run[j].pc = "queued"
    /\ ExecutorHasFreeThread
    /\ SetJob(j, "status", "running")
    /\ SetRun(j, [run[j] EXCEPT !.pc = "l123"])
    /\ UNCHANGED <<mode, workers, fs, clock, task, cli, resp>>
    /\ UNCHANGED graphVars

\* api.py 123: job.started_at = job._now()
RunStampStart(j) ==
    /\ run[j].pc = "l123"
    /\ SetJob(j, "started_at", _now)
    /\ clock' = clock + 1
    /\ SetRun(j, [run[j] EXCEPT !.pc = "setup"])
    /\ UNCHANGED <<mode, workers, fs, task, cli, resp>>
    /\ UNCHANGED graphVars

\* What the shared setup can raise: FileLoader when the directory is missing,
\* HCCLookupService when the CSV cannot be read or has no Description column,
\* VertexLLMClient when the credentials are missing or malformed.
SetupFailures(d) ==
    IF FileLoader_raises(d)
      THEN {Exc("FileNotFoundError", None)}
      ELSE {Exc("DataLoadError", None), Exc("CredentialError", None)}

\* api.py 125-141: loader, notes filtered by job.files, lookup service, client, graph
RunSetup(j, d) ==
    /\ run[j].pc = "setup"
    /\ \/ \E e \in SetupFailures(d) :
             SetRun(j, [run[j] EXCEPT !.pc = "except", !.exc = e])
       \/ /\ ~FileLoader_raises(d)
          /\ SetRun(j, [run[j] EXCEPT !.pc = "submit",
                                      !.notes = load_files(d) \cap JOB_STORE[j].files])
    /\ UNCHANGED <<mode, workers, fs, clock, JOB_STORE, task, cli, resp>>
    /\ UNCHANGED graphVars

\* api.py 143-147: one future per note
RunSubmit(j) ==
    /\ run[j].pc = "submit"
    /\ task' = [task EXCEPT ![j] =
                  [f \in Files |-> IF f \in run[j].notes
                                     THEN [pc |-> "queued", exc |-> NoExc]
                                     ELSE task[j][f]]]
    /\ SetRun(j, [run[j] EXCEPT !.pc = "collect", !.pending = run[j].notes])
    /\ UNCHANGED <<mode, workers, fs, clock, JOB_STORE, cli, resp>>
    /\ UNCHANGED graphVars

\* RunCollect without the try/except of lines 150-154: a raising future
\* leaves the loop and the pool, and reaches the handler of line 159.
RunCollect_noTry(j) ==
    /\ run[j].pc = "collect"
    /\ \E f \in run[j].pending :
          /\ Done(task[j][f])
          /\ IF task[j][f].pc = "returned"
               THEN /\ SetJob(j, "outputs", Append(JOB_STORE[j].outputs, OutPath(f)))
                    /\ SetRun(j, [run[j] EXCEPT !.pc = "l152", !.fut = f,
                                                !.pending = run[j].pending \ {f}])
               ELSE /\ SetRun(j, [run[j] EXCEPT !.pc = "l161"])
                    /\ SetJob(j, "errors", Append(JOB_STORE[j].errors, str(task[j][f].exc)))
    /\ UNCHANGED <<mode, workers, fs, clock, task, cli, resp>>
    /\ UNCHANGED graphVars

\* RunCollect with job.errors = [str(e)] in place of the append of line 154.
RunCollect_overwrites(j) ==
    /\ run[j].pc = "collect"
    /\ \E f \in run[j].pending :
          /\ Done(task[j][f])
          /\ IF task[j][f].pc = "returned"
               THEN /\ SetJob(j, "outputs", Append(JOB_STORE[j].outputs, OutPath(f)))
                    /\ SetRun(j, [run[j] EXCEPT !.pc = "l152", !.fut = f,
                                                !.pending = run[j].pending \ {f}])
               ELSE /\ SetJob(j, "errors", <<str(task[j][f].exc)>>)
                    /\ SetRun(j, [run[j] EXCEPT !.pending = run[j].pending \ {f}])
    /\ UNCHANGED <<mode, workers, fs, clock, task, cli, resp>>
    /\ UNCHANGED graphVars

\* api.py 149-154: as_completed yields a finished future; its result is
\* appended to outputs, or, when fut.result() raises, str(e) to errors
RunCollect(j) ==
    /\ run[j].pc = "collect"
    /\ \E f \in run[j].pending :
          /\ Done(task[j][f])
          /\ IF task[j][f].pc = "returned"
               THEN /\ SetJob(j, "outputs", Append(JOB_STORE[j].outputs, OutPath(f)))
                    /\ SetRun(j, [run[j] EXCEPT !.pc = "l152", !.fut = f,
                                                !.pending = run[j].pending \ {f}])
               ELSE /\ SetJob(j, "errors", Append(JOB_STORE[j].errors, str(task[j][f].exc)))
                    /\ SetRun(j, [run[j] EXCEPT !.pending = run[j].pending \ {f}])
    /\ UNCHANGED <<mode, workers, fs, clock, task, cli, resp>>
    /\ UNCHANGED graphVars

\* api.py 152: job.completed += 1
RunCount(j) ==
    /\ run[j].pc = "l152"
    /\ SetJob(j, "completed", JOB_STORE[j].completed + 1)
    /\ SetRun(j, [run[j] EXCEPT !.pc = "collect", !.fut = None])
    /\ UNCHANGED <<mode, workers, fs, clock, task, cli, resp>>
    /\ UNCHANGED graphVars

\* api.py 156: every future was yielded, the pool is shut down;
\* job.status = "completed" if not job.errors else "failed"
RunSetStatus(j) ==
    /\ run[j].pc = "collect"
    /\ run[j].pending = {}
    /\ SetJob(j, "status", IF JOB_STORE[j].errors = <<>> THEN "completed" ELSE "failed")
    /\ SetRun(j, [run[j] EXCEPT !.pc = "l157"])
    /\ UNCHANGED <<mode, workers, fs, clock, task, cli, resp>>
    /\ UNCHANGED graphVars

\* api.py 157: job.finished_at = job._now()
RunStampFinish(j) ==
    /\ run[j].pc = "l157"
    /\ SetJob(j, "finished_at", _now)
    /\ clock' = clock + 1
    /\ SetRun(j, [run[j] EXCEPT !.pc = "done"])
    /\ UNCHANGED <<mode, workers, fs, task, cli, resp>>
    /\ UNCHANGED graphVars

\* api.py 159-160: except Exception as e: job.errors.append(str(e))
RunExcept(j) ==
    /\ run[j].pc = "except"
    /\ SetJob(j, "errors", Append(JOB_STORE[j].errors, str(run[j].exc)))
    /\ SetRun(j, [run[j] EXCEPT !.pc = "l161"])
    /\ UNCHANGED <<mode, workers, fs, clock, task, cli, resp>>
    /\ UNCHANGED graphVars

\* api.py 161: job.status = "failed"
RunExceptStatus(j) ==
    /\ run[j].pc = "l161"
    /\ SetJob(j, "status", "failed")
    /\ SetRun(j, [run[j] EXCEPT !.pc = "l162"])
    /\ UNCHANGED <<mode, workers, fs, clock, task, cli, resp>>
    /\ UNCHANGED graphVars

\* RunExceptStampFinish, forgetting line 162.
RunExceptStampFinish_noStamp(j) ==
    /\ run[j].pc = "l162"
    /\ SetRun(j, [run[j] EXCEPT !.pc = "done"])
    /\ UNCHANGED <<mode, workers, fs, clock, JOB_STORE, task, cli, resp>>
    /\ UNCHANGED graphVars

\* api.py 162: job.finished_at = job._now()
RunExceptStampFinish(j) ==
    /\ run[j].pc = "l162"
    /\ SetJob(j, "finished_at", _now)
    /\ clock' = clock + 1
    /\ SetRun(j, [run[j] EXCEPT !.pc = "done"])
    /\ UNCHANGED <<mode, workers, fs, task, cli, resp>>
    /\ UNCHANGED graphVars

_run_job(j) ==
    \/ RunStart(j) \/ RunStampStart(j) \/ RunSubmit(j)
    \/ \E d \in InputDirs : RunSetup(j, d)
    \/ RunCollect(j) \/ RunCount(j) \/ RunSetStatus(j) \/ RunStampFinish(j)
    \/ RunExcept(j) \/ RunExceptStatus(j) \/ RunExceptStampFinish(j)

---------------------------------------------------------------------------
(* _process_one(filename, text, graph, output_dir) *)

SetTask(r, f, t) == task' = [task EXCEPT ![r][f] = t]

\* What graph.invoke(state) can raise on one note.
InvokeFailures(f) == {Exc("ExtractionError", f), Exc("EnrichmentError", f)}

\* api.py 102-108 / cli.py 15-26: a pool thread takes the task and runs the
\* graph on a PipelineState of its own; the graph returns or raises
Invoke(r, f) ==
    /\ task[r][f].pc = "queued"
    /\ PoolHasFreeThread(r)
    /\ \/ SetTask(r, f, [pc |-> "invoked", exc |-> NoExc])
       \/ \E e \in InvokeFailures(f) : SetTask(r, f, [pc |-> "raised", exc |-> e])
    /\ UNCHANGED <<mode, workers, fs, clock, JOB_STORE, run, cli, resp>>
    /\ UNCHANGED graphVars

\* api.py 110-113: os.makedirs; open(path, "w") truncates the final path
ApiOpen(j, f) ==
    /\ task[j][f].pc = "invoked"
    /\ fs' = [fs EXCEPT ![OutPath(f)] = "partial"]
    /\ SetTask(j, f, [pc |-> "opened", exc |-> NoExc])
    /\ UNCHANGED <<mode, workers, clock, JOB_STORE, run, cli, resp>>
    /\ UNCHANGED graphVars

\* api.py 114-116: json.dump(data, f), the file is closed, return path;
\* a failing dump leaves what was written so far
ApiDump(j, f) ==
    /\ task[j][f].pc = "opened"
    /\ \/ /\ fs' = [fs EXCEPT ![OutPath(f)] = "complete"]
          /\ SetTask(j, f, [pc |-> "returned", exc |-> NoExc])
       \/ /\ SetTask(j, f, [pc |-> "raised", exc |-> Exc("SerializationError", f)])
          /\ UNCHANGED fs
    /\ UNCHANGED <<mode, workers, clock, JOB_STORE, run, cli, resp>>
    /\ UNCHANGED graphVars

api_process_one(j, f) == Invoke(j, f) \/ ApiOpen(j, f) \/ ApiDump(j, f)


---------------------------------------------------------------------------
(* cli._process_one: the write goes to a temporary file that is moved into place *)

\* cli.py 28-30: open(tmp_path, "w")
CliOpen(f) ==
    /\ task[CLI][f].pc = "invoked"
    /\ fs' = [fs EXCEPT ![TmpPath(f)] = "partial"]
    /\ SetTask(CLI, f, [pc |-> "opened", exc |-> NoExc])
    /\ UNCHANGED <<mode, workers, clock, JOB_STORE, run, cli, resp>>
    /\ UNCHANGED graphVars

\* cli.py 30-31: json.dump(data, f), the temporary file is closed
CliDump(f) ==
    /\ task[CLI][f].pc = "opened"
    /\ \/ /\ fs' = [fs EXCEPT ![TmpPath(f)] = "complete"]
          /\ SetTask(CLI, f, [pc |-> "dumped", exc |-> NoExc])
       \/ /\ SetTask(CLI, f, [pc |-> "raised", exc |-> Exc("SerializationError", f)])
          /\ UNCHANGED fs
    /\ UNCHANGED <<mode, workers, clock, JOB_STORE, run, cli, resp>>
    /\ UNCHANGED graphVars

\* cli.py 32-33: os.replace(tmp_path, output_path); return output_path
CliReplace(f) ==
    /\ task[CLI][f].pc = "dumped"
    /\ fs' = [fs EXCEPT ![OutPath(f)] = fs[TmpPath(f)], ![TmpPath(f)] = "absent"]
    /\ SetTask(CLI, f, [pc |-> "returned", exc |-> NoExc])
    /\ UNCHANGED <<mode, workers, clock, JOB_STORE, run, cli, resp>>
    /\ UNCHANGED graphVars

cli_process_one(f) == Invoke(CLI, f) \/ CliOpen(f) \/ CliDump(f) \/ CliReplace(f)

---------------------------------------------------------------------------
(* cli.main() *)

\* cli.py 38-51: settings, loader, notes, lookup service, client, graph
CliSetup(d) ==
    /\ cli.pc = "setup"
    /\ \/ \E e \in SetupFailures(d) : cli' = [cli EXCEPT !.pc = "except", !.exc = e]
       \/ /\ ~FileLoader_raises(d)
          /\ cli' = [cli EXCEPT !.pc = "submit", !.notes = load_files(d)]
    /\ UNCHANGED <<mode, workers, fs, clock, JOB_STORE, run, task, resp>>
    /\ UNCHANGED graphVars

\* cli.py 54-58: one future per note
CliSubmit ==
    /\ cli.pc = "submit"
    /\ task' = [task EXCEPT ![CLI] =
                  [f \in Files |-> IF f \in cli.notes
                                     THEN [pc |-> "queued", exc |-> NoExc]
                                     ELSE task[CLI][f]]]
    /\ cli' = [cli EXCEPT !.pc = "collect", !.pending = cli.notes]
    /\ UNCHANGED <<mode, workers, fs, clock, JOB_STORE, run, resp>>
    /\ UNCHANGED graphVars

\* cli.py 60-64: fut.result(); a raising future is printed as "Error: ..."
CliCollect ==
    /\ cli.pc = "collect"
    /\ \E f \in cli.pending :
          /\ Done(task[CLI][f])
          /\ cli' = [cli EXCEPT
                       !.pending = cli.pending \ {f},
                       !.printed = IF task[CLI][f].pc = "raised"
                                     THEN Append(cli.printed, <<"Error: ", str(task[CLI][f].exc)>>)
                                     ELSE cli.printed]
    /\ UNCHANGED <<mode, workers, fs, clock, JOB_STORE, run, task, resp>>
    /\ UNCHANGED graphVars

\* main() returns: the process exits with status 0
CliReturn ==
    /\ cli.pc = "collect"
    /\ cli.pending = {}
    /\ cli' = [cli EXCEPT !.pc = "exited", !.exit = <<0>>]
    /\ UNCHANGED <<mode, workers, fs, clock, JOB_STORE, run, task, resp>>
    /\ UNCHANGED graphVars

\* cli.py 66-69: the error and its trace are printed, the exception is
\* raised again and the process exits non-zero
CliExcept ==
    /\ cli.pc = "except"
    /\ cli' = [cli EXCEPT !.pc = "exited", !.exit = <<1>>,
                          !.printed = cli.printed \o
                              << <<"Error: ", str(cli.exc)>>, <<"Traceback", str(cli.exc)>> >>]
    /\ UNCHANGED <<mode, workers, fs, clock, JOB_STORE, run, task, resp>>
    /\ UNCHANGED graphVars

main ==
    /\ mode = "cli"
    /\ \/ \E d \in InputDirs : CliSetup(d)
       \/ CliSubmit \/ CliCollect \/ CliReturn \/ CliExcept
       \/ \E f \in Files : cli_process_one(f)

---------------------------------------------------------------------------
(* The process *)

NoState == [filename |-> None, raw_text |-> <<>>,
            extracted_conditions |-> <<>>, enriched_conditions |-> <<>>]

\* No call of lookup, of _retry_generate, of extract_assessment_section.
NoLookup ==
    [pc |-> "idle", query |-> <<>>, row |-> 0,
     result |-> [found |-> FALSE, condition |-> <<>>, code |-> <<"None">>,
                 hcc_relevant |-> FALSE]]
NoError == [type |-> None, message |-> <<>>]
NoGenerate ==
    [pc |-> "idle", gexc |-> FALSE, max_retries |-> 0, attempt |-> 0, calls |-> 0,
     sleeps |-> <<>>, last |-> NoError, exc |-> NoError]
NoSection == [pc |-> "idle", lines |-> <<>>, text |-> <<>>, result |-> <<>>]

CallsIdle ==
    /\ lk = NoLookup
    /\ gen = NoGenerate
    /\ sect = NoSection

GraphIdle ==
    /\ table = <<>>
    /\ llm = FALSE
    /\ node = [at |-> "idle", exc |-> NoExc]
    /\ state = NoState
    /\ ties = 1
    /\ CallsIdle

RunnerInit ==
    /\ workers \in IF mode \in {"service", "cli"} THEN Widths ELSE {WORKERS}
    /\ fs = [p \in Paths |-> "absent"]
    /\ clock = 0
    /\ JOB_STORE = <<>>
    /\ run = <<>>
    /\ task = [r \in Runners |-> [f \in Files |-> IdleTask]]
    /\ cli = [pc |-> "setup", notes |-> {}, pending |-> {}, printed |-> <<>>,
              exit |-> Unset, exc |-> NoExc]
    /\ resp = [route |-> None, credentials |-> NoCredentials, status_code |-> 0,
               detail |-> "", job_id |-> 0, loaded |-> MissingDir, body |-> <<>>]

Init ==
    /\ mode \in {"service", "cli"}
    /\ RunnerInit
    /\ GraphIdle

service ==
    /\ mode = "service"
    /\ \/ \E d \in InputDirs : create_job(d)
       \/ \E j \in 1..Len(JOB_STORE) : _run_job(j)
       \/ \E j \in 1..Len(JOB_STORE) : \E f \in Files : api_process_one(j, f)

Next == service \/ main

Spec == Init /\ [][Next]_vars

---------------------------------------------------------------------------
(* The routes of the service *)

\* JobState.duration_seconds: finished_at - started_at once both are set
duration_seconds(job) ==
    IF job.started_at # Unset /\ job.finished_at # Unset
      THEN <<job.finished_at[1] - job.started_at[1]>>
      ELSE Unset

\* JobState.elapsed_seconds: utcnow() - started_at while finished_at is not set
elapsed_seconds(job) ==
    IF job.started_at # Unset /\ job.finished_at = Unset
      THEN <<clock - job.started_at[1]>>
      ELSE Unset

\* JobState.to_dict of the job stored under id j
to_dict(j) ==
    LET job == JOB_STORE[j]
    IN  [ job_id           |-> j,
          status           |-> job.status,
          submitted_at     |-> job.submitted_at,
          started_at       |-> job.started_at,
          finished_at      |-> job.finished_at,
          duration_seconds |-> duration_seconds(job),
          elapsed_seconds  |-> elapsed_seconds(job),
          total            |-> job.total,
          completed        |-> job.completed,
          errors           |-> job.errors,
          outputs          |-> job.outputs ]

\* A response that changes nothing but resp.
Respond(route, c, status_code, detail, job_id, body) ==
    /\ resp' = [route |-> route, credentials |-> c, status_code |-> status_code,
                detail |-> detail, job_id |-> job_id, loaded |-> MissingDir,
                body |-> body]
    /\ UNCHANGED <<mode, workers, fs, clock, JOB_STORE, run, task, cli>>
    /\ UNCHANGED graphVars

\* Depends(authenticate) raised: the handler of the route is not called
Unauthorized(route, c, job_id) ==
    Respond(route, c, 401,
            IF security_raises(c) THEN "Not authenticated" ELSE "Invalid credentials",
            job_id, <<>>)

\* api.py 166-168: GET /health takes no dependency
health(c) == Respond("GET /health", c, 200, "", 0, <<[status |-> "ok"]>>)

\* api.py 171-173: POST /login
login(c) ==
    IF security_raises(c) \/ authenticate_raises(c)
      THEN Unauthorized("POST /login", c, 0)
      ELSE Respond("POST /login", c, 200, "", 0, <<[status |-> "ok"]>>)

\* api.py 176-177: POST /jobs runs create_job once authenticate has returned
post_jobs(c, d) ==
    IF security_raises(c) \/ authenticate_raises(c)
      THEN Unauthorized("POST /jobs", c, 0)
      ELSE create_job(d)

\* api.py 193-198: GET /jobs/{job_id}: 404 for an unknown id, else the snapshot
get_job(c, job_id) ==
    IF security_raises(c) \/ authenticate_raises(c)
      THEN Unauthorized("GET /jobs/{job_id}", c, job_id)
    ELSE IF job_id \notin 1..Len(JOB_STORE)
      THEN Respond("GET /jobs/{job_id}", c, 404, "Job not found", job_id, <<>>)
      ELSE Respond("GET /jobs/{job_id}", c, 200, "", job_id, <<to_dict(job_id)>>)

\* api.py 250-252: GET /
index(c) ==
    IF security_raises(c) \/ authenticate_raises(c)
      THEN Unauthorized("GET /", c, 0)
      ELSE Respond("GET /", c, 200, "", 0, <<[status |-> "INDEX_HTML"]>>)

\* The input directory of the service holding at most one file.
SmallDirs == {d \in InputDirs : d.files \subseteq {"note1.txt"}}

routes ==
    /\ mode = "service"
    /\ \E c \in Credentials :
          \/ health(c) \/ login(c) \/ index(c)
          \/ \E d \in SmallDirs : post_jobs(c, d)
          \/ \E job_id \in JobIds : get_job(c, job_id)

jobs ==
    /\ mode = "service"
    /\ \E j \in 1..Len(JOB_STORE) :
          \/ RunStart(j) \/ RunStampStart(j) \/ RunSubmit(j)
          \/ \E d \in SmallDirs : RunSetup(j, d)
          \/ RunCollect(j) \/ RunCount(j) \/ RunSetStatus(j) \/ RunStampFinish(j)
          \/ RunExcept(j) \/ RunExceptStatus(j) \/ RunExceptStampFinish(j)
          \/ \E f \in Files : api_process_one(j, f)

ApiInit ==
    /\ mode = "service"
    /\ RunnerInit
    /\ GraphIdle

ApiNext == routes \/ jobs

\* The service answering requests while its jobs run.
SpecApi == ApiInit /\ [][ApiNext]_vars

\* Each thread that can take a step takes one in the end: the runner thread
\* of every job and the pool thread of every task.
Fairness ==
    /\ \A j \in JobIds : WF_vars(j <= Len(JOB_STORE) /\ _run_job(j))
    /\ \A j \in JobIds : \A f \in Files :
          WF_vars(j <= Len(JOB_STORE) /\ api_process_one(j, f))

\* The service under fair scheduling of its threads.
SpecLive == ApiInit /\ [][service]_vars /\ Fairness


---------------------------------------------------------------------------
(* Strings: a str is the tuple of its characters *)

UpperCase == <<"A","B","C","D","E","F","G","H","I","J","K","L","M",
               "N","O","P","Q","R","S","T","U","V","W","X","Y","Z">>
LowerCase == <<"a","b","c","d","e","f","g","h","i","j","k","l","m",
               "n","o","p","q","r","s","t","u","v","w","x","y","z">>

\* The characters str.strip() removes and str.split() splits on.
Whitespace == {" ", "\t", "\n"}

lower_char(c) ==
    IF \E i \in DOMAIN UpperCase : UpperCase[i] = c
      THEN LowerCase[CHOOSE i \in DOMAIN UpperCase : UpperCase[i] = c]
      ELSE c

\* str.lower()
lower(s) == [i \in 1..Len(s) |-> lower_char(s[i])]

\* str.strip()
strip(s) ==
    LET keep == {i \in 1..Len(s) : s[i] \notin Whitespace}
    IN  IF keep = {} THEN <<>>
        ELSE SubSeq(s, CHOOSE i \in keep : \A k \in keep : i <= k,
                       CHOOSE i \in keep : \A k \in keep : i >= k)

\* sub in s
contains(s, sub) ==
    \/ Len(sub) = 0
    \/ \E i \in 1..(Len(s) - Len(sub) + 1) : SubSeq(s, i, i + Len(sub) - 1) = sub

\* set(s.split()): the maximal runs of non-whitespace characters
split(s) ==
    { SubSeq(s, a, b) : <<a, b>> \in
        { ab \in (1..Len(s)) \X (1..Len(s)) :
            /\ ab[1] <= ab[2]
            /\ \A i \in ab[1]..ab[2] : s[i] \notin Whitespace
            /\ ab[1] = 1 \/ s[ab[1] - 1] \in Whitespace
            /\ ab[2] = Len(s) \/ s[ab[2] + 1] \in Whitespace } }

\* re.compile(pat) fails: of the characters that are special in a regular
\* expression, names here may hold "." and "[", and "[" opens a character
\* set that nothing closes.
re_error(pat) == \E i \in 1..Len(pat) : pat[i] = "["

\* re.search(pat, s, re.IGNORECASE) for a pattern of literal characters and
\* ".", which matches any character but a newline.
re_search(pat, s) ==
    \/ Len(pat) = 0
    \/ \E i \in 1..(Len(s) - Len(pat) + 1) :
          \A k \in 1..Len(pat) :
              IF pat[k] = "." THEN s[i + k - 1] # "\n"
              ELSE lower_char(pat[k]) = lower_char(s[i + k - 1])

\* A missing CSV cell (float NaN) and Python's None for a str-valued field:
\* tuples that are no str.
NaN == <<"NaN">>
NoneStr == <<"None">>

isna(x) == x = NaN

Min2(a, b) == IF a <= b THEN a ELSE b

---------------------------------------------------------------------------
(* HCCLookupService *)

code_col == "ICD-10-CM Codes"
desc_col == "Description"
tags_col == "Tags"
norm_col == "condition_normalized"

\* HCCLookupService._load_csv: the rows of the CSV in file order, each with
\* condition_normalized = Description.str.lower().str.strip() (NaN stays NaN)
_load_csv(csv) ==
    [i \in 1..Len(csv) |->
        [c \in DOMAIN csv[i] \cup {norm_col} |->
            IF c = norm_col
              THEN IF isna(csv[i][desc_col]) THEN NaN ELSE strip(lower(csv[i][desc_col]))
              ELSE csv[i][c]]]

\* hcc_lookup.py 21: the rows whose normalized description equals the key
exact_rows(df, key) == {i \in 1..Len(df) : df[i][norm_col] = key}

\* hcc_lookup.py 26: str.contains(key, case=False, na=False), the key read as
\* a regular expression
forward_rows(df, key) ==
    {i \in 1..Len(df) : ~isna(df[i][norm_col]) /\ re_search(key, df[i][norm_col])}

\* hcc_lookup.py 30-32: the rows whose normalized description is in the key
reverse_rows(df, key) ==
    {i \in 1..Len(df) : ~isna(df[i][norm_col]) /\ contains(key, df[i][norm_col])}

\* hcc_lookup.py 39-43: score_match
score_match(key_words, desc) ==
    IF isna(desc) THEN 0 ELSE Cardinality(key_words \cap split(lower(desc)))

\* The token tier keeping every row that shares a word with the key.
word_rows_anyWord(df, key) ==
    LET key_words == split(key)
    IN  IF key_words = {} THEN {}
        ELSE {i \in 1..Len(df) : score_match(key_words, df[i][norm_col]) >= 1}

\* hcc_lookup.py 36-47: the rows that share at least min(2, len(key_words))
\* words with the key; none when the key has no word
word_rows(df, key) ==
    LET key_words == split(key)
    IN  IF key_words = {} THEN {}
        ELSE {i \in 1..Len(df) :
                score_match(key_words, df[i][norm_col]) >= Min2(2, Cardinality(key_words))}

First(rows) == CHOOSE i \in rows : \A k \in rows : i <= k

\* The k-th row of a non-empty set of rows in file order, the last one when
\* the set has fewer.
RECURSIVE Kth(_, _)
Kth(rows, k) ==
    IF k <= 1 THEN First(rows)
    ELSE IF Cardinality(rows) = 1 THEN First(rows)
    ELSE Kth(rows \ {First(rows)}, k - 1)

\* hcc_lookup.py 50-51, 58: sort_values('_match_score', ascending=False) and
\* iloc[0].  The sort is pandas' default kind, quicksort, which is not stable:
\* the rows of the highest score come first, in an order the build of numpy
\* decides; ties says which of them is at iloc[0].
best_scored(df, key) ==
    LET rows == word_rows(df, key)
        score(i) == score_match(split(key), df[i][norm_col])
    IN  Kth({i \in rows : \A k \in rows : score(i) >= score(k)}, ties)

\* The cascade with the substring tier tried before the exact tier.
match_row_forwardFirst(df, key) ==
    IF forward_rows(df, key) # {} THEN First(forward_rows(df, key))
    ELSE IF exact_rows(df, key) # {} THEN First(exact_rows(df, key))
    ELSE IF reverse_rows(df, key) # {} THEN First(reverse_rows(df, key))
    ELSE IF word_rows(df, key) # {} THEN best_scored(df, key)
    ELSE 0

\* hcc_lookup.py 18-58: the index of the row lookup selects, 0 when no tier
\* yields a row
match_row(df, key) ==
    IF exact_rows(df, key) # {} THEN First(exact_rows(df, key))
    ELSE IF forward_rows(df, key) # {} THEN First(forward_rows(df, key))
    ELSE IF reverse_rows(df, key) # {} THEN First(reverse_rows(df, key))
    ELSE IF word_rows(df, key) # {} THEN best_scored(df, key)
    ELSE 0

\* lookup raises: the exact tier is empty and the key does not compile
lookup_raises(df, condition) ==
    LET key == strip(lower(condition))
    IN  exact_rows(df, key) = {} /\ re_error(key)

NoMatch == [found |-> FALSE, condition |-> <<>>, code |-> NoneStr, hcc_relevant |-> FALSE]

\* hcc_lookup.py 14: a Description column that holds no str is read as
\* float64, and its .str accessor raises AttributeError
_load_csv_raises(csv) ==
    Len(csv) > 0 /\ \A i \in 1..Len(csv) : isna(csv[i][desc_col])

\* lookup comparing the code with "" and "nan" before it is trimmed.
lookup_checksUntrimmedCode(df, condition) ==
    LET key == strip(lower(condition))
        i   == match_row(df, key)
    IN  IF i = 0 THEN NoMatch
        ELSE IF code_col \notin DOMAIN df[i] THEN NoMatch
        ELSE LET row == df[i]
                 code_value == row[code_col]
                 code == IF isna(code_value) THEN NoneStr
                         ELSE IF code_value \in {<<>>, <<"n","a","n">>} THEN NoneStr
                         ELSE strip(code_value)
                 description == IF ~isna(row[desc_col]) THEN strip(row[desc_col])
                                ELSE condition
                 hcc_relevant == IF tags_col \in DOMAIN row
                                   THEN ~isna(row[tags_col]) /\ strip(row[tags_col]) # <<>>
                                   ELSE FALSE
             IN  [found |-> TRUE, condition |-> description, code |-> code,
                  hcc_relevant |-> hcc_relevant]

\* HCCLookupService.lookup(condition): None, or the dict of the selected row
lookup(df, condition) ==
    LET key == strip(lower(condition))
        i   == match_row(df, key)
    IN  IF i = 0 THEN NoMatch
        ELSE IF code_col \notin DOMAIN df[i] THEN NoMatch
        ELSE LET row == df[i]
                 code_value == row[code_col]
                 code == IF isna(code_value) THEN NoneStr
                         ELSE IF strip(code_value) \in {<<>>, <<"n","a","n">>} THEN NoneStr
                         ELSE strip(code_value)
                 description == IF ~isna(row[desc_col]) THEN strip(row[desc_col])
                                ELSE condition
                 hcc_relevant == IF tags_col \in DOMAIN row
                                   THEN ~isna(row[tags_col]) /\ strip(row[tags_col]) # <<>>
                                   ELSE FALSE
             IN  [found |-> TRUE, condition |-> description, code |-> code,
                  hcc_relevant |-> hcc_relevant]

---------------------------------------------------------------------------
(* app.state, app.nodes, app.graph *)

\* Condition(name, code=None, hcc_relevant=False)
Condition(name, code, hcc_relevant) ==
    [name |-> name, code |-> code, hcc_relevant |-> hcc_relevant]

\* PipelineState(filename, raw_text)
PipelineState(filename, raw_text) ==
    [filename |-> filename, raw_text |-> raw_text,
     extracted_conditions |-> <<>>, enriched_conditions |-> <<>>]

\* vertex_client.py 157-163: one dict of the parsed array; a key that is
\* absent is given as NoneStr (name, code) or "absent" (hcc_relevant)
normalize_obj(obj) ==
    LET name == IF obj.name = NoneStr THEN <<>> ELSE strip(obj.name)
        code == IF obj.code \in {NoneStr, <<>>, <<"n","a","n">>} THEN NoneStr
                ELSE strip(obj.code)
        hcc_flag == obj.hcc_relevant = "true"
    IN  IF name = <<>> THEN <<>> ELSE <<Condition(name, code, hcc_flag)>>

RECURSIVE normalize_dicts(_)
normalize_dicts(items) ==
    IF items = <<>> THEN <<>>
    ELSE normalize_obj(Head(items)) \o normalize_dicts(Tail(items))

\* vertex_client.py 166-170: one str of the parsed array
RECURSIVE normalize_strs(_)
normalize_strs(items) ==
    IF items = <<>> THEN <<>>
    ELSE (IF strip(Head(items)) = <<>> THEN <<>>
          ELSE <<Condition(strip(Head(items)), NoneStr, FALSE)>>)
         \o normalize_strs(Tail(items))

\* VertexLLMClient.extract_conditions, from the parsed response on
\* (vertex_client.py 143-176): nothing parsed or no list gives [], a list of
\* dicts or of strs is normalized
extract_conditions(parsed) ==
    IF parsed.kind = "dicts" THEN normalize_dicts(parsed.items)
    ELSE IF parsed.kind = "strs" THEN normalize_strs(parsed.items)
    ELSE <<>>

Diabetes == <<"D","i","a","b","e","t","e","s">>
Hypertension == <<"H","y","p","e","r","t","e","n","s","i","o","n">>

\* nodes.py 26: the conditions used when no client is configured
static_conditions ==
    <<Condition(Diabetes, NoneStr, FALSE), Condition(Hypertension, NoneStr, FALSE)>>

\* HCCEvaluationNode.__call__ raises: a lookup of the loop raises
hcc_eval_raises(df, conditions) ==
    \E i \in 1..Len(conditions) : lookup_raises(df, conditions[i].name)

\* The loop without its else branch: a condition with no match is left out.
RECURSIVE enrich_dropsUnmatched(_, _)
enrich_dropsUnmatched(df, conditions) ==
    IF conditions = <<>> THEN <<>>
    ELSE LET cond == Head(conditions)
             match == lookup(df, cond.name)
         IN  (IF match.found
                THEN <<Condition(match.condition, match.code, match.hcc_relevant)>>
                ELSE <<>>)
             \o enrich_dropsUnmatched(df, Tail(conditions))

\* The loop with an else branch that rebuilds the condition from its name.
RECURSIVE enrich_nullsUnmatched(_, _)
enrich_nullsUnmatched(df, conditions) ==
    IF conditions = <<>> THEN <<>>
    ELSE LET cond == Head(conditions)
             match == lookup(df, cond.name)
         IN  (IF match.found
                THEN <<Condition(match.condition, match.code, match.hcc_relevant)>>
                ELSE <<Condition(cond.name, NoneStr, FALSE)>>)
             \o enrich_nullsUnmatched(df, Tail(conditions))

\* nodes.py 42-54: the loop of HCCEvaluationNode.__call__
RECURSIVE enrich(_, _)
enrich(df, conditions) ==
    IF conditions = <<>> THEN <<>>
    ELSE LET cond == Head(conditions)
             match == lookup(df, cond.name)
         IN  (IF match.found
                THEN <<Condition(match.condition, match.code, match.hcc_relevant)>>
                ELSE <<cond>>)
             \o enrich(df, Tail(conditions))

\* graph.py 12-18 (build_graph): the entry point and the edges
entry_point == "extract"

\* A graph whose extract node is wired to END.
edge_skipsEnrichment == [extract |-> "END", hcc_eval |-> "END"]

edge == [extract |-> "hcc_eval", hcc_eval |-> "END"]

---------------------------------------------------------------------------
(* The inputs of one run of the graph *)

\* The longest reference table and the longest parsed response.
MaxRows == 2
MaxConds == 2

DiabetesMellitus ==
    <<"D","i","a","b","e","t","e","s"," ","M","e","l","l","i","t","u","s">>
TypeTwoDiabetes == <<"t","y","p","e"," ","2"," ","d","i","a","b","e","t","e","s">>
Copd == <<"c","o","p","d">>
Xyz == <<"x","y","z">>

CsvRow(description, code, tags) ==
    (desc_col :> description) @@ (code_col :> code) @@ (tags_col :> tags)

\* Rows of a reference CSV as pandas reads them: a cell is a str or NaN.
CsvRows ==
    { CsvRow(DiabetesMellitus, <<"E","1","1">>, <<"T","r","u","e">>),
      CsvRow(<<" ">> \o Hypertension, <<" ">>, NaN),
      CsvRow(<<"D","i","a","b","e","t","e","s"," ","T","y","p","e"," ","2">>,
             <<" ","n","a","n">>, <<" ">>),
      CsvRow(Copd, NaN, <<"H","C","C">>),
      CsvRow(NaN, <<"Z","0","0">>, <<"T">>) }

\* The columns a reference CSV may have besides Description.
ColumnSets == { {desc_col, code_col, tags_col}, {desc_col, code_col}, {desc_col, tags_col} }

RECURSIVE SeqsUpTo(_, _)
SeqsUpTo(S, n) ==
    IF n = 0 THEN {<<>>}
    ELSE LET shorter == SeqsUpTo(S, n - 1)
         IN  shorter \cup {Append(q, x) : q \in shorter, x \in S}

Project(row, cols) == [c \in cols |-> row[c]]

\* The reference CSVs: up to MaxRows rows over one of the column sets.
CsvFiles ==
    { [i \in 1..Len(rows) |-> Project(rows[i], cols)] :
        rows \in SeqsUpTo(CsvRows, MaxRows), cols \in ColumnSets }

JsonObj(name, code, hcc_relevant) ==
    [name |-> name, code |-> code, hcc_relevant |-> hcc_relevant]

\* Objects the model's answer may hold.
JsonObjs ==
    { JsonObj(Diabetes, NoneStr, "absent"),
      JsonObj(<<" ">> \o Copd \o <<" ">>, <<"J","4","4">>, "true"),
      JsonObj(Xyz, <<"Z","9">>, "true"),
      JsonObj(Xyz, <<" ">>, "false"),
      JsonObj(TypeTwoDiabetes, <<"n","a","n">>, "absent"),
      JsonObj(<<"a","[">>, NoneStr, "absent"),
      JsonObj(NoneStr, <<"Q">>, "true") }

JsonStrs == { Hypertension, <<" ">>, <<"x","y","z"," ">> }

\* What the client's answer parses to: nothing or a list of dicts,
DictResponses ==
    {[kind |-> "none", items |-> <<>>]}
    \cup {[kind |-> "dicts", items |-> q] : q \in SeqsUpTo(JsonObjs, MaxConds)}

\* or a list of strs.
StrResponses ==
    {[kind |-> "strs", items |-> q] : q \in SeqsUpTo(JsonStrs, MaxConds)}

---------------------------------------------------------------------------
(* graph.invoke(state) *)

\* ConditionExtractionNode.__call__ (nodes.py 12-28), then the edge out of
\* "extract": with a client, its extract_conditions raises or returns the
\* normalized answer; without one, the static conditions
extract ==
    /\ node.at = "extract"
    /\ node.exc = NoExc
    /\ \/ /\ llm
          /\ node' = [node EXCEPT !.exc = Exc("ExtractionError", state.filename)]
          /\ UNCHANGED state
       \/ /\ llm
          /\ \/ \E parsed \in DictResponses :
                   state' = [state EXCEPT !.extracted_conditions = extract_conditions(parsed)]
             \/ \E parsed \in StrResponses :
                   state' = [state EXCEPT !.extracted_conditions = extract_conditions(parsed)]
          /\ node' = [node EXCEPT !.at = edge[node.at]]
       \/ /\ ~llm
          /\ state' = [state EXCEPT !.extracted_conditions = static_conditions]
          /\ node' = [node EXCEPT !.at = edge[node.at]]
    /\ UNCHANGED <<mode, workers, table, llm, ties, callVars>>
    /\ UNCHANGED runnerVars

\* HCCEvaluationNode.__call__ (nodes.py 35-56), then the edge out of "hcc_eval"
hcc_eval ==
    /\ node.at = "hcc_eval"
    /\ node.exc = NoExc
    /\ IF hcc_eval_raises(table, state.extracted_conditions)
         THEN /\ node' = [node EXCEPT !.exc = Exc("EnrichmentError", state.filename)]
              /\ UNCHANGED state
         ELSE /\ state' = [state EXCEPT
                            !.enriched_conditions = enrich(table, state.extracted_conditions)]
              /\ node' = [node EXCEPT !.at = edge[node.at]]
    /\ UNCHANGED <<mode, workers, table, llm, ties, callVars>>
    /\ UNCHANGED runnerVars

\* One note through the compiled graph: the service is constructed on a
\* reference CSV, with or without a client.
GraphInit ==
    /\ mode = "graph"
    /\ RunnerInit
    /\ \E csv \in CsvFiles : ~_load_csv_raises(csv) /\ table = _load_csv(csv)
    /\ ties \in 1..MaxRows
    /\ CallsIdle
    /\ llm \in BOOLEAN
    /\ node = [at |-> entry_point, exc |-> NoExc]
    /\ state = PipelineState("a.txt", <<"n","o","t","e">>)

GraphNext == mode = "graph" /\ (extract \/ hcc_eval)

SpecGraph == GraphInit /\ [][GraphNext]_vars

---------------------------------------------------------------------------
(* One HCCLookupService on a reference CSV, and calls of lookup(condition) *)

HeartFailureChronic == <<"H","e","a","r","t"," ","F","a","i","l","u","r","e"," ","C","h","r","o","n","i","c">>
ChronicKidneyFailure == <<"C","h","r","o","n","i","c"," ","K","i","d","n","e","y"," ","F","a","i","l","u","r","e">>

\* Rows of the reference CSV of the lookup service.
LookupRows ==
    { CsvRow(DiabetesMellitus, <<"E","1","1">>, <<"T","r","u","e">>),
      CsvRow(Diabetes, <<"E","1","0">>, NaN),
      CsvRow(<<"C","O","P","D">>, NaN, <<"H","C","C">>),
      CsvRow(HeartFailureChronic, <<" ","I","5","0"," ">>, <<" ">>),
      CsvRow(ChronicKidneyFailure, <<" ","n","a","n">>, <<"T">>),
      CsvRow(<<" ">> \o Hypertension \o <<" ">>, <<" ">>, NaN),
      CsvRow(NaN, <<"Z","0","0">>, <<"T">>) }

\* The reference CSVs: up to MaxRows rows over one of the column sets.
LookupFiles ==
    { [i \in 1..Len(rows) |-> Project(rows[i], cols)] :
        rows \in SeqsUpTo(LookupRows, MaxRows), cols \in ColumnSets }

\* The condition names lookup is called with.
Queries ==
    { <<" ","D","i","a","b","e","t","e","s"," ">>,
      <<"d","i","a","b","e","t","e","s"," ","m","e","l","l","i","t","u","s">>,
      <<"S","e","v","e","r","e"," ","C","O","P","D">>,
      <<"c","h","r","o","n","i","c"," ","f","a","i","l","u","r","e">>,
      <<"a","c","u","t","e"," ","h","e","a","r","t"," ","f","a","i","l","u","r","e">>,
      <<"c",".","p","d">>,
      <<"C","O","P","D"," ","[","J","4","4">>,
      <<"x","y","z">>,
      <<"H","y","p","e","r">>,
      <<"K","i","d","n","e","y"," ","f","a","i","l","u","r","e"," ","c","h","r","o","n","i","c">> }

\* A caller calls lookup(condition).
lookup_begin ==
    /\ mode = "lookup"
    /\ lk.pc # "called"
    /\ \E condition \in Queries :
          lk' = [NoLookup EXCEPT !.pc = "called", !.query = condition]
    /\ UNCHANGED <<mode, workers, table, llm, node, state, ties, gen, sect>>
    /\ UNCHANGED runnerVars

\* HCCLookupService.lookup(condition) (hcc_lookup.py 17-93) raises, or
\* returns None or the dict of the row it selected
lookup_call ==
    /\ mode = "lookup"
    /\ lk.pc = "called"
    /\ IF lookup_raises(table, lk.query)
         THEN lk' = [lk EXCEPT !.pc = "raised"]
         ELSE lk' = [lk EXCEPT !.pc = "returned",
                               !.row = match_row(table, strip(lower(lk.query))),
                               !.result = lookup(table, lk.query)]
    /\ UNCHANGED <<mode, workers, table, llm, node, state, ties, gen, sect>>
    /\ UNCHANGED runnerVars

LookupInit ==
    /\ mode = "lookup"
    /\ RunnerInit
    /\ \E csv \in LookupFiles : ~_load_csv_raises(csv) /\ table = _load_csv(csv)
    /\ ties \in 1..MaxRows
    /\ llm = FALSE
    /\ node = [at |-> "idle", exc |-> NoExc]
    /\ state = NoState
    /\ CallsIdle

LookupNext == lookup_begin \/ lookup_call

SpecLookup == LookupInit /\ [][LookupNext]_vars

---------------------------------------------------------------------------
(* VertexLLMClient._should_retry and _retry_generate *)

\* An exception of model.generate_content: its class and str(exc).
Error(type, message) == [type |-> type, message |-> message]

\* vertex_client.py 181: the classes of google.api_core.exceptions that are
\* retried by type
RetryableTypes ==
    {"ResourceExhausted", "DeadlineExceeded", "ServiceUnavailable",
     "InternalServerError", "Unknown"}

\* vertex_client.py 185: the substrings that make a message retryable
RetryableMarkers ==
    { <<"r","e","s","o","u","r","c","e","_","e","x","h","a","u","s","t","e","d">>,
      <<"q","u","o","t","a">>,
      <<"t","e","m","p","o","r","a","r">>,
      <<"d","e","a","d","l","i","n","e","e","x","c","e","e","d","e","d">>,
      <<"u","n","a","v","a","i","l","a","b","l","e">>,
      <<"i","n","t","e","r","n","a","l">>,
      <<"5","0","2">>,
      <<"5","0","3">>,
      <<"5","0","4">>,
      <<"4","2","9">> }

\* vertex_client.py 188: the substrings of a non-retryable message
NonRetryableMarkers ==
    { <<"u","n","a","u","t","h","e","n","t","i","c","a","t","e","d">>,
      <<"p","e","r","m","i","s","s","i","o","n","_","d","e","n","i","e","d">>,
      <<"i","n","v","a","l","i","d","_","a","r","g","u","m","e","n","t">>,
      <<"c","r","e","d","e","n","t","i","a","l","s">>,
      <<"f","o","r","b","i","d","d","e","n">>,
      <<"4","0","0">>,
      <<"4","0","1">>,
      <<"4","0","3">> }

any_in(markers, msg) == \E m \in markers : contains(msg, m)

\* VertexLLMClient._should_retry(exc) (vertex_client.py 179-191); gexc is
\* whether google.api_core.exceptions could be imported (lines 13-16)
_should_retry(gexc, exc) ==
    IF gexc /\ exc.type \in RetryableTypes THEN TRUE
    ELSE LET msg == lower(exc.message)
         IN  IF any_in(RetryableMarkers, msg) THEN TRUE
             ELSE IF any_in(NonRetryableMarkers, msg) THEN FALSE
             ELSE FALSE

\* The defaults of _retry_generate (vertex_client.py 193), delays in seconds.
base_delay == 1
max_delay == 8

\* The greatest max_retries a call is made with.
MaxRetries == 5

\* 0.5 + random.random() lies in [0.5, 1.5): its values here, in tenths.
Jitters == {5, 14}

\* vertex_client.py 204: min(max_delay, base_delay * (2 ** attempt)) *
\* (0.5 + random.random()), in tenths of a second
sleep_s(attempt, jitter) == Min2(max_delay, base_delay * (2 ^ attempt)) * jitter

\* What model.generate_content can raise: an Exception, or an exception of
\* google.api_core.exceptions where that module is installed.
Errors ==
    { Error("Exception", <<"5","0","3"," ","S","e","r","v","i","c","e"," ","U","n","a","v","a","i","l","a","b","l","e">>),
      Error("Exception", <<"r","e","s","o","u","r","c","e","_","e","x","h","a","u","s","t","e","d">>),
      Error("Exception", <<"i","n","v","a","l","i","d","_","a","r","g","u","m","e","n","t",":"," ","b","a","d"," ","r","e","q","u","e","s","t">>),
      Error("Exception", <<"u","n","a","u","t","h","e","n","t","i","c","a","t","e","d">>),
      Error("Exception", <<"b","o","o","m">>),
      Error("ServiceUnavailable", <<"c","o","n","n","e","c","t","i","o","n"," ","r","e","s","e","t">>),
      Error("PermissionDenied", <<"4","0","3"," ","A","P","I"," ","r","e","q","u","i","r","e","s"," ","a"," ","q","u","o","t","a"," ","p","r","o","j","e","c","t">>) }

\* A caller calls _retry_generate(prompt, max_retries): attempt = 0 (line 196).
retry_begin ==
    /\ mode = "retry"
    /\ gen.pc \in {"idle", "returned", "raised"}
    /\ \E n \in 0..MaxRetries :
          gen' = [NoGenerate EXCEPT !.pc = "try", !.gexc = gen.gexc, !.max_retries = n]
    /\ UNCHANGED <<mode, workers, table, llm, node, state, ties, lk, sect>>
    /\ UNCHANGED runnerVars

\* vertex_client.py 198-199: self.model.generate_content(prompt) returns, and
\* so does _retry_generate, or raises
generate_content ==
    /\ mode = "retry"
    /\ gen.pc = "try"
    /\ \/ gen' = [gen EXCEPT !.calls = @ + 1, !.pc = "returned"]
       \/ \E e \in Errors :
             /\ gen.gexc \/ e.type = "Exception"
             /\ gen' = [gen EXCEPT !.calls = @ + 1, !.last = e, !.pc = "except"]
    /\ UNCHANGED <<mode, workers, table, llm, node, state, ties, lk, sect>>
    /\ UNCHANGED runnerVars

\* The handler giving up when attempt > max_retries.
except_handler_offByOne ==
    /\ mode = "retry"
    /\ gen.pc = "except"
    /\ IF ~_should_retry(gen.gexc, gen.last) \/ gen.attempt > gen.max_retries
         THEN gen' = [gen EXCEPT !.pc = "raised", !.exc = gen.last]
         ELSE \E jitter \in Jitters :
                gen' = [gen EXCEPT !.sleeps = Append(@, sleep_s(gen.attempt, jitter)),
                                   !.attempt = @ + 1,
                                   !.pc = "try"]
    /\ UNCHANGED <<mode, workers, table, llm, node, state, ties, lk, sect>>
    /\ UNCHANGED runnerVars

\* vertex_client.py 200-207: the error is raised again when it is not
\* retryable or the attempts are used up; else the thread sleeps, counts the
\* attempt and goes round the loop
except_handler ==
    /\ mode = "retry"
    /\ gen.pc = "except"
    /\ IF ~_should_retry(gen.gexc, gen.last) \/ gen.attempt >= gen.max_retries
         THEN gen' = [gen EXCEPT !.pc = "raised", !.exc = gen.last]
         ELSE \E jitter \in Jitters :
                gen' = [gen EXCEPT !.sleeps = Append(@, sleep_s(gen.attempt, jitter)),
                                   !.attempt = @ + 1,
                                   !.pc = "try"]
    /\ UNCHANGED <<mode, workers, table, llm, node, state, ties, lk, sect>>
    /\ UNCHANGED runnerVars

RetryInit ==
    /\ mode = "retry"
    /\ RunnerInit
    /\ table = <<>>
    /\ llm = TRUE
    /\ node = [at |-> "idle", exc |-> NoExc]
    /\ state = NoState
    /\ ties = 1
    /\ lk = NoLookup
    /\ sect = NoSection
    /\ \E g \in BOOLEAN : gen = [NoGenerate EXCEPT !.gexc = g]

RetryNext == retry_begin \/ generate_content \/ except_handler

\* The thread that runs _retry_generate is not stopped, and a call of the
\* model returns or raises.
SpecRetry ==
    RetryInit /\ [][RetryNext]_vars /\ WF_vars(generate_content) /\ WF_vars(except_handler)

---------------------------------------------------------------------------
(* ingestion.text_cleaner.extract_assessment_section *)

\* The positions of text at which a line starts, and the line starting at p.
LineStarts(text) == {1} \cup {i + 1 : i \in {k \in 1..Len(text) : text[k] = "\n"}}

LineEnd(text, p) ==
    LET nl == {i \in p..Len(text) : text[i] = "\n"}
    IN  IF nl = {} THEN Len(text) ELSE (CHOOSE i \in nl : \A k \in nl : i <= k) - 1

Line(text, p) == SubSeq(text, p, LineEnd(text, p))

\* text_cleaner.py 6-16, _START_HEADER_RE on one line: these spellings of the
\* header in any case, with spaces around them and one ":" or "-" after them.
\* (The pattern also takes other amounts of white space between the words.)
StartForms ==
    { <<"a","/","p">>,
      <<"a"," ","/"," ","p">>,
      <<"a","s","s","e","s","s","m","e","n","t","/","p","l","a","n">>,
      <<"a","s","s","e","s","s","m","e","n","t"," ","/"," ","p","l","a","n">>,
      <<"a","s","s","e","s","s","m","e","n","t"," ","a","n","d"," ","p","l","a","n">>,
      <<"a","s","s","e","s","s","m","e","n","t"," ","&"," ","p","l","a","n">>,
      <<"a","s","s","e","s","s","m","e","n","t"," ","p","l","a","n">> }

start_header(line) ==
    LET t == strip(lower(line))
        u == IF t # <<>> /\ t[Len(t)] \in {":", "-"}
               THEN strip(SubSeq(t, 1, Len(t) - 1)) ELSE t
    IN  u \in StartForms

\* text_cleaner.py 21-32, _END_HEADER_RE on one line
EndForms ==
    { <<"r","e","t","u","r","n"," ","t","o"," ","o","f","f","i","c","e">>,
      <<"e","n","c","o","u","n","t","e","r"," ","s","i","g","n","-","o","f","f">>,
      <<"e","n","c","o","u","n","t","e","r"," ","s","i","g","n"," ","o","f","f">>,
      <<"e","n","c","o","u","n","t","e","r"," ","s","i","g","n","o","f","f">>,
      <<"f","o","l","l","o","w","-","u","p">>,
      <<"f","o","l","l","o","w"," ","u","p">>,
      <<"f","o","l","l","o","w","u","p">>,
      <<"d","i","s","p","o","s","i","t","i","o","n">>,
      <<"m","e","d","i","c","a","t","i","o","n">>,
      <<"m","e","d","i","c","a","t","i","o","n","s">>,
      <<"m","e","d","s">>,
      <<"p","l","a","n">>,
      <<"p","l","a","n",":">>,
      <<"p","l","a","n"," ",":">> }

end_header(line) == strip(lower(line)) \in EndForms

\* extract_assessment_section returning the slice even when it is empty.
extract_assessment_section_noFallback(text) ==
    IF text = <<>> THEN text
    ELSE LET starts == {p \in LineStarts(text) : start_header(Line(text, p))}
         IN  IF starts = {} THEN text
             ELSE LET start_idx == LineEnd(text, First(starts)) + 1
                      ends == {p \in LineStarts(text) :
                                 p >= start_idx /\ end_header(Line(text, p))}
                      end_idx == IF ends = {} THEN Len(text) + 1 ELSE First(ends)
                  IN  strip(SubSeq(text, start_idx, end_idx - 1))

\* extract_assessment_section(text) (text_cleaner.py 34-65): start_idx is the
\* end of the first start header, end_idx the start of the first end header
\* found from there on, or the end of the text
extract_assessment_section(text) ==
    IF text = <<>> THEN text
    ELSE LET starts == {p \in LineStarts(text) : start_header(Line(text, p))}
         IN  IF starts = {} THEN text
             ELSE LET start_idx == LineEnd(text, First(starts)) + 1
                      ends == {p \in LineStarts(text) :
                                 p >= start_idx /\ end_header(Line(text, p))}
                      end_idx == IF ends = {} THEN Len(text) + 1 ELSE First(ends)
                      section == strip(SubSeq(text, start_idx, end_idx - 1))
                  IN  IF section # <<>> THEN section ELSE text

\* The longest note, in lines.
MaxLines == 4

\* The lines of a note.
NoteLines ==
    { <<"A","s","s","e","s","s","m","e","n","t","/","P","l","a","n",":">>,
      <<" ","a","/","p"," ","-"," ">>,
      <<"D","i","a","b","e","t","e","s">>,
      <<>>,
      <<"F","o","l","l","o","w","-","u","p">>,
      <<" ","P","l","a","n"," ">>,
      <<"A","/","P",":"," ","D","M">> }

\* "\n".join(lines)
RECURSIVE join(_)
join(lines) ==
    IF lines = <<>> THEN <<>>
    ELSE IF Len(lines) = 1 THEN lines[1]
    ELSE lines[1] \o <<"\n">> \o join(Tail(lines))

\* ConditionExtractionNode.__call__ calls extract_assessment_section on the
\* raw text of a note (nodes.py 21).
section_begin ==
    /\ mode = "section"
    /\ sect.pc = "idle"
    /\ \E lines \in SeqsUpTo(NoteLines, MaxLines) :
          sect' = [pc |-> "called", lines |-> lines, text |-> join(lines), result |-> <<>>]
    /\ UNCHANGED <<mode, workers, table, llm, node, state, ties, lk, gen>>
    /\ UNCHANGED runnerVars

\* extract_assessment_section(text) returns.
section_call ==
    /\ mode = "section"
    /\ sect.pc = "called"
    /\ sect' = [sect EXCEPT !.pc = "returned",
                            !.result = extract_assessment_section(sect.text)]
    /\ UNCHANGED <<mode, workers, table, llm, node, state, ties, lk, gen>>
    /\ UNCHANGED runnerVars

SectionInit ==
    /\ mode = "section"
    /\ RunnerInit
    /\ GraphIdle

SectionNext == section_begin \/ section_call

SpecSection == SectionInit /\ [][SectionNext]_vars

---------------------------------------------------------------------------
(* Properties of the runners *)

Jobs == 1..Len(JOB_STORE)

\* The job's shared setup raised (the handler of api.py 159 holds the exception).
SetupFailed(j) == run[j].exc.type # None

\* The job went through its pool and left line 156.
RanPool(j) == run[j].pc \in {"l157", "done"} /\ ~SetupFailed(j)

InSeq(x, seq) == \E i \in 1..Len(seq) : seq[i] = x

Raised(r) == {f \in Files : task[r][f].pc = "raised"}
Returned(r) == {f \in Files : task[r][f].pc = "returned"}

\* Another job has truncated the final path of f since: it has it open, or
\* its dump failed.
ReopenedByOther(j, f) ==
    \E k \in Jobs \ {j} :
        \/ task[k][f].pc = "opened"
        \/ task[k][f].pc = "raised" /\ task[k][f].exc.type = "SerializationError"

\* C1: partial-failure isolation.  Once the runner is past its pool, every
\* note of the batch was processed to its end; a note whose run raised has
\* its message in job.errors (service) or printed as "Error: ..." (CLI); every
\* other note returned, its artifact is written at the final path (and, in
\* the service, listed in job.outputs); and a raising note never takes the
\* runner to its top-level handler.
PartialFailureIsolation ==
    /\ \A j \in Jobs :
          /\ RanPool(j) =>
                \A f \in run[j].notes :
                    \/ /\ task[j][f].pc = "raised"
                       /\ InSeq(str(task[j][f].exc), JOB_STORE[j].errors)
                    \/ /\ task[j][f].pc = "returned"
                       /\ InSeq(OutPath(f), JOB_STORE[j].outputs)
                       /\ fs[OutPath(f)] = "complete" \/ ReopenedByOther(j, f)
          /\ run[j].pc \in {"except", "l161", "l162"} => SetupFailed(j)
          /\ SetupFailed(j) => \A f \in Files : task[j][f].pc = "idle"
    /\ cli.pc = "exited" /\ cli.exc.type = None =>
          /\ cli.exit = <<0>>
          /\ \A f \in cli.notes :
                \/ /\ task[CLI][f].pc = "raised"
                   /\ InSeq(<<"Error: ", str(task[CLI][f].exc)>>, cli.printed)
                \/ /\ task[CLI][f].pc = "returned"
                   /\ fs[OutPath(f)] = "complete"

\* A finished job of two notes, one of which raised while the other's
\* artifact was written.
PartialFailureIsolation_witness ==
    \E j \in Jobs :
        /\ run[j].pc = "done"
        /\ \E f, g \in run[j].notes :
              /\ task[j][f].pc = "raised"
              /\ task[j][g].pc = "returned"
              /\ fs[OutPath(g)] = "complete"

\* C2: exact final accounting.  A job whose pool ran n notes of which k
\* raised ends with len(errors) = k, len(outputs) = n - k, completed = n - k
\* and status "completed" if k = 0, else "failed".
ExactAccounting ==
    \A j \in Jobs :
        run[j].pc = "done" /\ ~SetupFailed(j) =>
            LET n == Cardinality(run[j].notes)
                k == Cardinality(Raised(j))
                job == JOB_STORE[j]
            IN  /\ Len(job.errors) = k
                /\ Len(job.outputs) = n - k
                /\ job.completed = n - k
                /\ job.status = IF k = 0 THEN "completed" ELSE "failed"

\* Two notes, one raising: one error, one output, one completed, "failed".
ExactAccounting_witness ==
    \E j \in Jobs :
        /\ run[j].pc = "done"
        /\ Cardinality(run[j].notes) = 2
        /\ Cardinality(Raised(j)) = 1
        /\ Len(JOB_STORE[j].errors) = 1
        /\ Len(JOB_STORE[j].outputs) = 1
        /\ JOB_STORE[j].status = "failed"

StatusTransitions ==
    {<<"pending", "running">>, <<"running", "completed">>, <<"running", "failed">>}

\* C3: the status lifecycle.  A JobState enters the store as "pending", and a
\* step that changes a job's status takes it from pending to running, from
\* running to completed or from running to failed.
StatusLifecycle ==
    [][ /\ \A j \in 1..Len(JOB_STORE') :
              j > Len(JOB_STORE) => JOB_STORE'[j].status = "pending"
        /\ \A j \in Jobs :
              JOB_STORE'[j].status # JOB_STORE[j].status =>
                  <<JOB_STORE[j].status, JOB_STORE'[j].status>> \in StatusTransitions
      ]_vars

\* One job has gone pending, running, completed and another pending,
\* running, failed.
StatusLifecycle_witness ==
    /\ \E j \in Jobs : JOB_STORE[j].status = "completed"
    /\ \E j \in Jobs : JOB_STORE[j].status = "failed"

\* C4: a JobState whose status is completed or failed does not change again.
ImmutableOnceTerminal ==
    [][ \A j \in Jobs :
            JOB_STORE[j].status \in Terminal => JOB_STORE'[j] = JOB_STORE[j] ]_vars

\* C5: no reader finds a partially written file at a final path
\* <output_dir>/<filename>.json, under either entry point.
AtomicOutputWrites ==
    \A f \in Files : fs[OutPath(f)] # "partial"

\* C6: a POST /jobs that finds the input directory empty is answered 400
\* "No input files found", stores no JobState and submits nothing to EXECUTOR.
EmptyBatchRejected ==
    [][ resp' # resp /\ resp'.loaded.exists /\ resp'.loaded.files = {} =>
            /\ resp'.status_code = 400
            /\ resp'.detail = "No input files found"
            /\ JOB_STORE' = JOB_STORE
            /\ run' = run
            /\ task' = task ]_vars

\* A POST /jobs on an empty directory was answered, after a job was accepted.
EmptyBatchRejected_witness ==
    /\ resp.status_code = 400
    /\ resp.loaded.files = {}
    /\ Len(JOB_STORE) = 1

\* C7: a failure of the shared setup aborts the job before any per-file work:
\* no task of the job is ever submitted, and the job ends "failed" with
\* exactly one error (the setup's), completed = 0, no outputs and finished_at
\* stamped.
SetupFailureAborts ==
    \A j \in Jobs :
        SetupFailed(j) =>
            /\ \A f \in Files : task[j][f].pc = "idle"
            /\ JOB_STORE[j].completed = 0
            /\ JOB_STORE[j].outputs = <<>>
            /\ run[j].pc = "done" =>
                  /\ JOB_STORE[j].status = "failed"
                  /\ JOB_STORE[j].errors = <<str(run[j].exc)>>
                  /\ JOB_STORE[j].finished_at # Unset

\* A job whose lookup table could not be loaded has ended.
SetupFailureAborts_witness ==
    \E j \in Jobs :
        /\ run[j].pc = "done"
        /\ run[j].exc.type = "DataLoadError"
        /\ JOB_STORE[j].status = "failed"

---------------------------------------------------------------------------
(* Properties of the graph *)

\* C8: the per-note pipeline is the single path Start -> Extracted ->
\* Enriched.  A run starts at the extraction stage with nothing enriched; the
\* position moves only extract -> hcc_eval and hcc_eval -> END, and only when
\* the stage it leaves returned without raising; enriched_conditions is
\* written only by the enrichment stage and extracted_conditions only by the
\* extraction stage; once a stage has raised, nothing runs on the note.
GraphSinglePath ==
    /\ node.at = "extract" /\ node.exc = NoExc
    /\ state.enriched_conditions = <<>>
    /\ [][ /\ node'.at # node.at =>
                /\ node.exc = NoExc /\ node'.exc = NoExc
                /\ <<node.at, node'.at>> \in {<<"extract", "hcc_eval">>, <<"hcc_eval", "END">>}
           /\ state'.enriched_conditions # state.enriched_conditions =>
                node.at = "hcc_eval" /\ node.exc = NoExc
           /\ state'.extracted_conditions # state.extracted_conditions =>
                node.at = "extract" /\ node.exc = NoExc
           /\ node.exc # NoExc => node' = node /\ state' = state
           /\ node.at = "END" => node' = node /\ state' = state ]_vars

\* Extraction raised: the run stands at the extraction stage holding the
\* error, and nothing was enriched.
GraphSinglePath_witness ==
    /\ mode = "graph"
    /\ node.at = "extract"
    /\ node.exc.type = "ExtractionError"
    /\ state.enriched_conditions = <<>>

\* The replacement enrichment makes of a condition whose lookup matched.
Replacement(cond) ==
    LET match == lookup(table, cond.name)
    IN  Condition(match.condition, match.code, match.hcc_relevant)

\* C9: enrichment preserves length and order.  When the enrichment stage has
\* returned, enriched_conditions is as long as extracted_conditions and its
\* element i is the input element i itself or the matched replacement of it.
EnrichPreservesLengthAndOrder ==
    node.at = "END" =>
        LET cs == state.extracted_conditions
            es == state.enriched_conditions
        IN  /\ Len(es) = Len(cs)
            /\ \A i \in 1..Len(cs) :
                  \/ es[i] = cs[i]
                  \/ lookup(table, cs[i].name).found /\ es[i] = Replacement(cs[i])

\* Two conditions were enriched, one replaced by its match and one kept, in
\* that order.
EnrichPreservesLengthAndOrder_witness ==
    /\ node.at = "END"
    /\ Len(state.extracted_conditions) = 2
    /\ lookup(table, state.extracted_conditions[1].name).found
    /\ state.enriched_conditions[1] # state.extracted_conditions[1]
    /\ ~lookup(table, state.extracted_conditions[2].name).found
    /\ state.enriched_conditions[2] # state.enriched_conditions[1]

\* C10: pass-through on no match.  When the enrichment stage has returned,
\* every condition whose lookup returned none stands in the result unchanged
\* (name, code and hcc_relevant), and enriching that result element again
\* returns it unchanged.
PassThroughOnNoMatch ==
    node.at = "END" =>
        LET cs == state.extracted_conditions
            es == state.enriched_conditions
        IN  \A i \in 1..Len(cs) :
              ~lookup(table, cs[i].name).found =>
                  /\ i \in 1..Len(es)
                  /\ es[i].name = cs[i].name
                  /\ es[i].code = cs[i].code
                  /\ es[i].hcc_relevant = cs[i].hcc_relevant
                  /\ enrich(table, <<es[i]>>) = <<es[i]>>

\* An already-coded, HCC-flagged condition whose name matches no row of a
\* table that has rows went through enrichment.
PassThroughOnNoMatch_witness ==
    /\ node.at = "END"
    /\ Len(table) > 0
    /\ \E i \in 1..Len(state.extracted_conditions) :
          /\ ~lookup(table, state.extracted_conditions[i].name).found
          /\ state.extracted_conditions[i].code # NoneStr
          /\ state.extracted_conditions[i].hcc_relevant
          /\ state.enriched_conditions[i] = state.extracted_conditions[i]

---------------------------------------------------------------------------
(* Properties of the lookup *)

\* The query of the call as lookup normalizes it.
Key == strip(lower(lk.query))

\* The table was read from a CSV that has the code column.
HasCodeColumn == \A i \in 1..Len(table) : code_col \in DOMAIN table[i]

\* The call returned the first row, in table order, whose normalized
\* description equals the normalized query.
ReturnedFirstExactRow ==
    /\ lk.result.found
    /\ lk.row = First(exact_rows(table, Key))
    /\ strip(lower(lk.result.condition)) = Key

SubstringRows(df, key) ==
    {i \in 1..Len(df) : ~isna(df[i][norm_col]) /\ contains(df[i][norm_col], key)}

\* C12: lookup evaluates the tiers exact, forward substring (query contained
\* in description), reverse substring (description contained in query), token
\* overlap in that order and stops at the first tier that yields a candidate;
\* for tiers 1-3 the selected row is the first candidate in table order; and
\* lookup returns none if and only if no tier yields a candidate.
CascadeOrder ==
    lk.pc = "returned" =>
        IF exact_rows(table, Key) # {}
          THEN lk.result.found /\ lk.row = First(exact_rows(table, Key))
        ELSE IF SubstringRows(table, Key) # {}
          THEN lk.result.found /\ lk.row = First(SubstringRows(table, Key))
        ELSE IF reverse_rows(table, Key) # {}
          THEN lk.result.found /\ lk.row = First(reverse_rows(table, Key))
        ELSE IF word_rows(table, Key) # {}
          THEN lk.result.found /\ lk.row \in word_rows(table, Key)
        ELSE ~lk.result.found

\* How many words of the query the description of row i shares.
Shared(i) ==
    IF isna(table[i][desc_col]) THEN 0
    ELSE Cardinality(split(Key) \cap split(lower(table[i][desc_col])))

\* The rows that share at least min(2, number of query words) words.
Candidates == {i \in 1..Len(table) : Shared(i) >= Min2(2, Cardinality(split(Key)))}

\* The exact tier and the two substring tiers of the call yielded nothing.
TokenTierDecides ==
    /\ lk.pc = "returned"
    /\ exact_rows(table, Key) = {}
    /\ forward_rows(table, Key) = {}
    /\ reverse_rows(table, Key) = {}

\* C13: when tiers 1-3 yield nothing, the candidates are exactly the rows
\* that share at least min(2, number of query words) words with the query,
\* the selected row is a candidate of the greatest intersection size, and no
\* row sharing fewer words than the threshold is returned: with no
\* candidate, lookup returns none.
TokenOverlapTier ==
    TokenTierDecides =>
        IF Candidates = {}
          THEN lk.row = 0 /\ ~lk.result.found
          ELSE /\ lk.row \in Candidates
               /\ \A k \in Candidates : Shared(lk.row) >= Shared(k)
               /\ HasCodeColumn => lk.result.found

\* Two rows are candidates, the second shares more words than the first,
\* and lookup returned the second.
TokenOverlapTier_witness ==
    /\ TokenTierDecides
    /\ Candidates = {1, 2}
    /\ Shared(2) > Shared(1)
    /\ lk.row = 2
    /\ lk.result.found

\* C14: when two or more candidate rows have the same, greatest intersection
\* score, lookup returns the one that is earliest in the table's row order.
TieBreakEarliest ==
    (TokenTierDecides /\ Candidates # {}) =>
        lk.row = First({i \in Candidates : \A k \in Candidates : Shared(i) >= Shared(k)})

\* The cells of the row the call selected.
Selected == table[lk.row]
CodeCell == Selected[code_col]
TagsPresent == tags_col \in DOMAIN Selected /\ ~isna(Selected[tags_col])

\* C15: the result bundle of a matched row.  condition is the trimmed
\* description (the query as given when the description is missing); code is
\* the trimmed code, or null when the code is missing, empty after trimming
\* or the literal nan; hcc_relevant is true if and only if the tags field is
\* present and non-empty after trimming.
ResultBundle ==
    (lk.pc = "returned" /\ lk.result.found) =>
        /\ lk.row \in 1..Len(table)
        /\ lk.result.condition =
              (IF isna(Selected[desc_col]) THEN lk.query ELSE strip(Selected[desc_col]))
        /\ (lk.result.code = NoneStr) <=>
              (isna(CodeCell) \/ strip(CodeCell) = <<>> \/ strip(CodeCell) = <<"n","a","n">>)
        /\ (lk.result.code # NoneStr) => lk.result.code = strip(CodeCell)
        /\ lk.result.hcc_relevant <=> (TagsPresent /\ strip(Selected[tags_col]) # <<>>)

\* A row whose code trims to the literal nan and whose tags are not empty was
\* matched: the bundle has the trimmed description, no code, and is relevant.
ResultBundle_witness ==
    /\ lk.pc = "returned"
    /\ lk.result.found
    /\ ~isna(CodeCell) /\ CodeCell # strip(CodeCell)
    /\ strip(CodeCell) = <<"n","a","n">>
    /\ lk.result.code = NoneStr
    /\ lk.result.hcc_relevant
    /\ lk.result.condition = strip(Selected[desc_col])

---------------------------------------------------------------------------
(* Properties of the conditions of a run *)

\* A code is null or a non-empty trimmed string other than the literal nan.
WellFormedCode(code) ==
    \/ code = NoneStr
    \/ code # <<>> /\ code = strip(code) /\ code # <<"n","a","n">>

\* C16: every Condition in extracted_conditions or enriched_conditions of a
\* pipeline run, whether it comes from the normalization of the client's
\* response, from the static fallback, from a lookup match or was passed
\* through unmatched, has a code that is null or a non-empty trimmed string,
\* never the empty string and never the literal nan.
ConditionCodeInvariant ==
    /\ \A i \in 1..Len(state.extracted_conditions) :
          WellFormedCode(state.extracted_conditions[i].code)
    /\ \A i \in 1..Len(state.enriched_conditions) :
          WellFormedCode(state.enriched_conditions[i].code)

---------------------------------------------------------------------------
(* Properties of the retry loop *)

\* What holds of a call of _retry_generate at every point of it.
RetryAccounting ==
    /\ gen.calls <= gen.max_retries + 1
    /\ gen.pc = "try" => Len(gen.sleeps) = gen.calls
    /\ gen.pc \in {"except", "returned", "raised"} => Len(gen.sleeps) = gen.calls - 1
    /\ gen.pc = "returned" => gen.exc = NoError /\ gen.attempt = gen.calls - 1
    /\ gen.pc = "raised" => gen.exc # NoError /\ gen.exc = gen.last
    /\ (gen.pc = "raised" /\ _should_retry(gen.gexc, gen.exc)) =>
          Len(gen.sleeps) = gen.max_retries /\ gen.calls = gen.max_retries + 1

\* C17: the retry loop is bounded.  _retry_generate calls the model at most
\* max_retries + 1 times and sleeps exactly once before each retry (exactly
\* max_retries times when every attempt fails with a retryable error); it
\* returns at the first call that succeeds, and otherwise raises the last
\* error again; and every call of it ends.
RetryLoopBounded ==
    /\ []RetryAccounting
    /\ (gen.pc \in {"try", "except"}) ~> (gen.pc \in {"returned", "raised"})

\* With max_retries = 2, three calls failed with a retryable error: two
\* sleeps, and the last error raised.
RetryLoopBounded_witness ==
    /\ gen.pc = "raised"
    /\ gen.max_retries = 2
    /\ gen.calls = 3
    /\ Len(gen.sleeps) = 2
    /\ _should_retry(gen.gexc, gen.exc)

\* The error is of a transient class: quota, timeout, unavailable, 5xx, 429.
Transient(e) ==
    \/ gen.gexc /\ e.type \in RetryableTypes
    \/ any_in(RetryableMarkers, lower(e.message))

\* The error is of the authentication, permission or malformed-request class.
AuthOrMalformed(e) == any_in(NonRetryableMarkers, lower(e.message))

\* The last error the model raised was followed by a sleep and a retry.
WasRetried == gen.last # NoError /\ gen.pc \in {"try", "returned"}

\* C18: the call is retried only on an error of a transient class; an error
\* of the authentication, permission or malformed-request class, and an
\* unknown error, is raised at once, with no sleep and no further call.
RetryClassification ==
    WasRetried => (Transient(gen.last) /\ ~AuthOrMalformed(gen.last))

\* C19: within one call, of every two consecutive sleeps the second is at
\* least as long as the first, whatever the jitter.
BackoffGrows ==
    \A i \in 1..(Len(gen.sleeps) - 1) : gen.sleeps[i + 1] >= gen.sleeps[i]

---------------------------------------------------------------------------
(* Properties of the section extraction *)

\* The lines of the note in hand between its first start header and the first
\* end header after it, joined and trimmed; <<>> when no line is a start header.
FirstStart ==
    LET hs == {i \in 1..Len(sect.lines) : start_header(sect.lines[i])}
    IN  IF hs = {} THEN 0 ELSE First(hs)

FirstEndAfter(i) ==
    LET es == {j \in (i + 1)..Len(sect.lines) : end_header(sect.lines[j])}
    IN  IF es = {} THEN Len(sect.lines) + 1 ELSE First(es)

Between ==
    IF FirstStart = 0 THEN <<>>
    ELSE strip(join(SubSeq(sect.lines, FirstStart + 1, FirstEndAfter(FirstStart) - 1)))

\* C20: the extracted section is the whole original text when the note has no
\* start header line or when the trimmed text between the start header and
\* the next end header (or the end of the text) is empty, and is that trimmed
\* text otherwise; so it is empty only when the note is empty.
SectionNeverTruncatesToNothing ==
    sect.pc = "returned" =>
        /\ (FirstStart = 0 \/ Between = <<>>) => sect.result = sect.text
        /\ (FirstStart # 0 /\ Between # <<>>) => sect.result = Between
        /\ sect.result = <<>> => sect.text = <<>>

\* A note whose start header is followed at once by an end header came back whole.
SectionNeverTruncatesToNothing_witness ==
    /\ sect.pc = "returned"
    /\ FirstStart # 0
    /\ FirstEndAfter(FirstStart) <= Len(sect.lines)
    /\ Between = <<>>
    /\ sect.result = sect.text
    /\ sect.text # <<>>

---------------------------------------------------------------------------
(* Properties of the service *)

\* The last request was a status query answered with a snapshot.
Snapshot == resp.route = "GET /jobs/{job_id}" /\ resp.status_code = 200

\* C21: access control.  A request to any route but GET /health that does not
\* carry the valid credentials is answered 401 with no body, and stores no
\* job, submits nothing to EXECUTOR, starts no task and writes nothing;
\* GET /health is answered 200 whatever the credentials.
AccessControl ==
    [][ resp' # resp =>
          /\ resp'.route = "GET /health" => resp'.status_code = 200
          /\ (resp'.route # "GET /health" /\ resp'.credentials # Authenticated) =>
                /\ resp'.status_code = 401
                /\ resp'.body = <<>>
                /\ UNCHANGED <<JOB_STORE, run, task, fs, clock>> ]_vars

\* The status of a stored job was asked for with the right user name and a
\* wrong password, and the request was answered 401.
AccessControl_witness ==
    /\ resp.route = "GET /jobs/{job_id}"
    /\ resp.job_id \in 1..Len(JOB_STORE)
    /\ resp.credentials.username = DEMO_USER
    /\ resp.credentials.password # DEMO_PASS
    /\ resp.status_code = 401
    /\ resp.body = <<>>

\* C22: in every snapshot a status query returns, a running job has
\* started_at set and reports elapsed_seconds, and a completed or failed job
\* has finished_at set and reports duration_seconds and no elapsed_seconds.
SnapshotTimestamps ==
    Snapshot =>
        LET d == resp.body[1]
        IN  /\ d.status = "running" =>
                  d.started_at # Unset /\ d.elapsed_seconds # Unset
            /\ d.status \in Terminal =>
                  /\ d.finished_at # Unset
                  /\ d.duration_seconds # Unset
                  /\ d.elapsed_seconds = Unset

\* C23: in every snapshot a status query returns, completed = len(outputs).
SnapshotCountsOutputs ==
    Snapshot => resp.body[1].completed = Len(resp.body[1].outputs)

\* C24: a job whose status is "completed" has processed and written every
\* file it owns: completed = total = len(outputs), whatever the input
\* directory held when the runner read it again.
CompletedMeansEveryFile ==
    \A j \in Jobs :
        JOB_STORE[j].status = "completed" =>
            /\ JOB_STORE[j].completed = JOB_STORE[j].total
            /\ JOB_STORE[j].total = Len(JOB_STORE[j].outputs)

\* C25: under fair scheduling, with every task returning or raising, every
\* job that was accepted has status completed or failed in the end.
EveryJobFinishes ==
    \A j \in JobIds :
        (j <= Len(JOB_STORE)) ~> (j <= Len(JOB_STORE) /\ JOB_STORE[j].status \in Terminal)

\* With an executor of one thread, a job submitted before the other was
\* started has waited for the thread, and both have finished, one completed
\* and one failed.
EveryJobFinishes_witness ==
    /\ workers = 1
    /\ Len(JOB_STORE) = 2
    /\ \E j, k \in Jobs :
          /\ JOB_STORE[j].status = "completed"
          /\ JOB_STORE[k].status = "failed"
          /\ Len(JOB_STORE[k].outputs) = 1
          /\ JOB_STORE[j].started_at # Unset
          /\ JOB_STORE[k].submitted_at[1] < JOB_STORE[j].started_at[1]
          /\ JOB_STORE[j].finished_at # Unset
          /\ JOB_STORE[k].started_at # Unset
          /\ JOB_STORE[j].finished_at[1] < JOB_STORE[k].started_at[1]

=============================================================================
